---- MODULE Spec2Model ----
(***************************************************************************)
(* Model of kbirk/render: the render-state cache of technique.go (the      *)
(* process-wide prev* snapshot and Technique.setup), the uniform binder    *)
(* and the link-time reflection of shader.go, the Command builder and      *)
(* Technique.Draw, the attachments of a FrameBuffer, the draw parameters   *)
(* of a Renderable, the device state the gl calls act on, and the log of   *)
(* the gl calls an operation issues.                                       *)
(***************************************************************************)
EXTENDS Integers, Sequences, FiniteSets, TLC

\* ------------------------------------------------------------------ bounds
\* longest enables list a technique is given (Technique.Enable appends)
MaxEnables == 2

\* ------------------------------------------------------------- value sets
\* a nil pointer to an object that has identity (*Shader, *FrameBuffer, *Viewport)
MaxCommands == 2
\* largest small block size and largest alignment the device reports
MaxSize == 12
MaxAlignment == 8
Nil == "nil"
\* a map without entries (a nil map reads the same)
EmptyMap == <<>>
\* a nil pointer to a value struct (*blendFunc, *cullFace, *depthMask,
\* *depthFunc); a non-nil one is the tuple of the struct's fields
None == <<>>

\* gl capabilities given to Technique.Enable
Caps == {"DEPTH_TEST", "BLEND", "CULL_FACE"}
\* shader programs (identity of *Shader)
Shaders == {"S1", "S2"}
\* framebuffer objects (identity of *FrameBuffer)
FrameBuffers == {"F1", "F2"}
\* Viewport objects of the caller (identity of *Viewport)
ViewportIds == {"V1", "V2"}
\* (sfactor, dfactor) pairs
BlendFuncs == {<<"ONE", "ZERO">>, <<"SRC_ALPHA", "ONE_MINUS_SRC_ALPHA">>}
CullModes == {"BACK", "FRONT"}
DepthFuncs == {"LESS", "LEQUAL"}
\* values of the int32 fields of a Viewport
Widths == {640, 800}

\* uniform names a program can report, and one it never reports
UniformNames == {"u", "v"}
NameInputs == UniformNames \cup {"doesNotExist"}
\* gl type enums a reflected uniform can carry: the ten SetUniform knows
\* and one it has no case for
SupportedTypes ==
    {"SAMPLER_2D", "SAMPLER_CUBE", "INT", "UNSIGNED_INT", "FLOAT",
     "FLOAT_VEC2", "FLOAT_VEC3", "FLOAT_VEC4", "FLOAT_MAT3", "FLOAT_MAT4"}
UniformTypes == SupportedTypes \cup {"FLOAT_MAT2"}
\* array lengths a reflected uniform can carry (UNIFORM_SIZE)
UniformCounts == {1, 3}
\* dynamic types of the value handed to SetUniform as interface{}
ArgTypes == {"int32", "uint32", "float32", "*int32", "*uint32", "*float32", "int"}
\* the data handed over (the number, or what the pointer points at)
ArgData == {7, 9}
\* a value handed to SetUniform: <<dynamic type, data>>
Args == ArgTypes \X ArgData

\* the caller's Command, Texture and Renderable objects
CmdIds == {"K1", "K2"}
TextureIds == {"X1"}
RenderableIds == {"R1", "R2"}
\* texture units
Units == {"TEXTURE0"}
\* the value a Command is given for a uniform
CmdArgs == {<<"int32", 7>>}
\* the larger sets a single Command is built from
BuilderTextureIds == {"X1", "X2"}
BuilderUnits == {"TEXTURE0", "TEXTURE1"}
BuilderArgs == {<<"int32", 7>>, <<"int32", 9>>}
\* the name the device generated for a Texture
TextureName(x) == IF x = "X1" THEN 1 ELSE 2

\* int32
MaxInt32 == 2147483647
MinInt32 == -MaxInt32 - 1

\* a + b and a - b on int32: the sum modulo 2^32, computed without ever
\* leaving the int32 range
Add32(a, b) ==
    IF b >= 0
    THEN IF a <= MaxInt32 - b THEN a + b
         ELSE (a - MaxInt32 - 1) + (b - MaxInt32 - 1)
    ELSE IF a >= MinInt32 - b THEN a + b
         ELSE (a + MaxInt32 + 1) + (b + MaxInt32 + 1)

Sub32(a, b) ==
    IF b = MinInt32 THEN Add32(Add32(a, MaxInt32), 1) ELSE Add32(a, -b)

\* UNIFORM_BLOCK_DATA_SIZE of a block: small sizes and the largest ones
BlockSizes == (0..MaxSize) \cup {MaxInt32 - 1, MaxInt32}
\* UNIFORM_BUFFER_OFFSET_ALIGNMENT of the device
Alignments == 1..MaxAlignment
BlockNames == {"B"}

\* attachment points of a framebuffer
Attachments == {"COLOR_ATTACHMENT0", "DEPTH_ATTACHMENT"}

\* shader objects handed to AttachShader
ShaderObjects == {"vs", "fs"}
\* gl types the reflection of a link reports
ReportTypes == {"INT", "FLOAT_VEC3"}
\* what the device reports as the block's data size and as its uniform
\* buffer offset alignment after a link
ReportSizes == {16}
\* the names of the active uniforms of a linked program, in index order
ReportNames == {<<>>, <<"u">>, <<"v">>, <<"u", "v">>}
\* the uniform blocks a linked program can have, in index order, and how
\* many of them it has
ReportBlocks == <<"B", "C">>
ReportBlockCounts == {0, 1, 2}
ReportAlignments == {16}
\* the Shader objects that are attached to, linked and destroyed
Linkable == {"S1"}

\* what the SetDraw* calls of a Renderable are given
DrawModes == {"TRIANGLES", "LINES"}
DrawCounts == {3, 6}
IndexTypes == {"UNSIGNED_SHORT"}
PrimCounts == {0, 2}
\* the IndexBuffer objects of the caller (identity of *IndexBuffer)
IndexBuffers == {"IB1"}
\* the Renderable the SetDraw* calls are made on
Settable == {"R1"}

\* the program object the device creates for a Shader
ProgramOf(s) == IF s = "S1" THEN "P1" ELSE "P2"

\* a Viewport value as <<X, Y, Width, Height>>
Rect(w) == <<0, 0, w, 480>>

BoolStr(b) == IF b THEN "true" ELSE "false"

\* ------------------------------------------------------------------ state
VARIABLES
    tech,            \* the Technique object the caller is configuring
    viewports,       \* the caller's Viewport objects: id -> rectangle
    prevBlendFunc, prevCullFace, prevDepthMask, prevDepthFunc,
    prevViewport,    \* pointer to a Viewport object, or Nil
    prevShader, prevFrameBuffer,
    prevEnables,     \* set of capabilities mapped to true
    dev,             \* the device (gl context) state
    calls,           \* gl calls issued by the last operation, in order
    fault,           \* the last operation panicked (nil dereference)
    op,              \* the last operation: "build" (a builder call) or "setup"
    lastApplied,     \* <<the technique of the last setup, its enables as a set>>,
                     \* or None before the first setup
    descriptors,     \* s.descriptors of each Shader: name -> descriptor
    err,             \* the error the last operation returned, or Nil
    uarg,            \* <<shader, name, arg>> of the last SetUniform, or None
    cmds,            \* the fields of each Command
    textures,        \* the fields of each Texture
    renderables,     \* the fields of each Renderable
    drawn,           \* the list handed to the last Draw
    setups,          \* how many times the last operation ran setup
    programs,        \* id and recorded shader objects of each Shader
    blockDescriptors,\* s.blockDescriptors of each Shader: name -> descriptor
    framebuffers,    \* the fields of each FrameBuffer
    ret,             \* the value the last operation returned, or None
    lastSet          \* per Renderable, <<name, primcount>> of the most
                     \* recent SetDraw* call on it (primcount 0 when the
                     \* call takes none)

vars == <<tech, viewports, prevBlendFunc, prevCullFace,
          prevDepthMask, prevDepthFunc, prevViewport, prevShader,
          prevFrameBuffer, prevEnables, dev, calls, fault, op, lastApplied,
          descriptors, err, uarg, cmds, textures, renderables, drawn, setups,
          programs, blockDescriptors, framebuffers, ret, lastSet>>

\* NewTechnique: explicit defaults for the four fixed-function fields, the
\* zero value (nil) for everything else.
NewTechniqueValue ==
    [enables |-> <<>>, shader |-> Nil, viewport |-> Nil, framebuffer |-> Nil,
     blendFunc |-> <<"ONE", "ZERO">>, cullFace |-> <<"BACK">>,
     depthMask |-> <<TRUE>>, depthFunc |-> <<"LESS">>]

\* The device before any call: every attribute at its (unrecorded) default.
\* `shaders` holds <<program, shader object>> for every shader object that
\* was attached to a program and has not been deleted since.
DevInit ==
    [framebuffer |-> "0", program |-> "0", enabled |-> {},
     blendFunc |-> None, cullFace |-> None, depthMask |-> None,
     depthFunc |-> None, viewport |-> None, shaders |-> {}]

\* ------------------------------------------------- machine state of setup
\* The snapshot, the device and the call log as one record, threaded
\* through the steps of setup.
Machine ==
    [prevBlendFunc |-> prevBlendFunc, prevCullFace |-> prevCullFace,
     prevDepthMask |-> prevDepthMask, prevDepthFunc |-> prevDepthFunc,
     prevViewport |-> prevViewport, prevShader |-> prevShader,
     prevFrameBuffer |-> prevFrameBuffer, prevEnables |-> prevEnables,
     dev |-> dev, calls |-> <<>>, fault |-> FALSE, err |-> Nil, setups |-> 0]

\* one gl call: append to the log
Issue(m, call) == [m EXCEPT !.calls = Append(@, call)]

\* FrameBuffer.Bind / FrameBuffer.Unbind
FrameBufferBind(m, f) ==
    [Issue(m, <<"BindFramebuffer", f>>) EXCEPT !.dev.framebuffer = f]
FrameBufferUnbind(m) ==
    [Issue(m, <<"BindFramebuffer", "0">>) EXCEPT !.dev.framebuffer = "0"]

\* setup, "bind framebuffer": the unbind leaves prevFrameBuffer as it was
StepFrameBuffer(t, m) ==
    LET m1 == IF t.framebuffer = Nil /\ m.prevFrameBuffer # Nil
              THEN FrameBufferUnbind(m) ELSE m
    IN  IF t.framebuffer # Nil /\ t.framebuffer # m1.prevFrameBuffer
        THEN [FrameBufferBind(m1, t.framebuffer)
                EXCEPT !.prevFrameBuffer = t.framebuffer]
        ELSE m1

\* a shader step that records the shader without activating it
StepShaderNoUse(t, m) == [m EXCEPT !.prevShader = t.shader]

\* Shader.Use reads s.id: on a nil *Shader that is a nil dereference, and
\* the panic leaves setup before gl.UseProgram and before the assignment.
StepShader(t, m) ==
    IF m.prevShader # t.shader
    THEN IF t.shader = Nil
         THEN [m EXCEPT !.fault = TRUE]
         ELSE [Issue(m, <<"UseProgram", t.shader>>)
                 EXCEPT !.dev.program = t.shader, !.prevShader = t.shader]
    ELSE m

\* the enable loop without its `prevEnables[state] = true`
RECURSIVE EnableLoopNoRecord(_, _, _)
EnableLoopNoRecord(enables, i, m) ==
    IF i > Len(enables) THEN m
    ELSE LET state == enables[i]
             m1 == IF state \notin m.prevEnables
                   THEN [Issue(m, <<"Enable", state>>)
                           EXCEPT !.dev.enabled = @ \cup {state}]
                   ELSE m
         IN  EnableLoopNoRecord(enables, i + 1, m1)

\* setup, "enable state": the loop over t.enables, in list order
RECURSIVE EnableLoop(_, _, _)
EnableLoop(enables, i, m) ==
    IF i > Len(enables) THEN m
    ELSE LET state == enables[i]
             m1 == IF state \notin m.prevEnables
                   THEN [Issue(m, <<"Enable", state>>)
                           EXCEPT !.dev.enabled = @ \cup {state},
                                  !.prevEnables = @ \cup {state}]
                   ELSE m
         IN  EnableLoop(enables, i + 1, m1)

\* staleEnables after the enable loop: the keys of prevEnables at entry,
\* less every requested state
StaleEnables(t, m) == m.prevEnables \ {t.enables[i] : i \in 1..Len(t.enables)}

\* the capabilities a technique requests, as a set
Requested(t) == {t.enables[i] : i \in 1..Len(t.enables)}

\* setup, "disable stale state": the loop over the map staleEnables, in the
\* iteration order `order` (Go leaves the order of a map range unspecified)
RECURSIVE DisableLoop(_, _, _)
DisableLoop(order, i, m) ==
    IF i > Len(order) THEN m
    ELSE DisableLoop(order, i + 1,
            [Issue(m, <<"Disable", order[i]>>)
               EXCEPT !.dev.enabled = @ \ {order[i]},
                      !.prevEnables = @ \ {order[i]}])

\* blendFunc.Equals etc.: other != nil and the fields are equal
ValueEquals(a, other) == other # None /\ a = other

StepBlendFunc(t, m) ==
    IF t.blendFunc # None /\ ~ValueEquals(t.blendFunc, m.prevBlendFunc)
    THEN [Issue(m, <<"BlendFunc", t.blendFunc[1], t.blendFunc[2]>>)
            EXCEPT !.dev.blendFunc = t.blendFunc,
                   !.prevBlendFunc = t.blendFunc]
    ELSE m

\* a cull-face step that reads an unset field as the default mode
StepCullFaceDefault(t, m) ==
    LET c == IF t.cullFace = None THEN <<"BACK">> ELSE t.cullFace
    IN  IF ~ValueEquals(c, m.prevCullFace)
        THEN [Issue(m, <<"CullFace", c[1]>>)
                EXCEPT !.dev.cullFace = c, !.prevCullFace = c]
        ELSE m

StepCullFace(t, m) ==
    IF t.cullFace # None /\ ~ValueEquals(t.cullFace, m.prevCullFace)
    THEN [Issue(m, <<"CullFace", t.cullFace[1]>>)
            EXCEPT !.dev.cullFace = t.cullFace, !.prevCullFace = t.cullFace]
    ELSE m

StepDepthMask(t, m) ==
    IF t.depthMask # None /\ ~ValueEquals(t.depthMask, m.prevDepthMask)
    THEN [Issue(m, <<"DepthMask", BoolStr(t.depthMask[1])>>)
            EXCEPT !.dev.depthMask = t.depthMask,
                   !.prevDepthMask = t.depthMask]
    ELSE m

StepDepthFunc(t, m) ==
    IF t.depthFunc # None /\ ~ValueEquals(t.depthFunc, m.prevDepthFunc)
    THEN [Issue(m, <<"DepthFunc", t.depthFunc[1]>>)
            EXCEPT !.dev.depthFunc = t.depthFunc,
                   !.prevDepthFunc = t.depthFunc]
    ELSE m

\* Viewport.Equals: other != nil and the four fields are equal.  Both sides
\* are pointers: the fields are read from the objects as they are now.
ViewportEquals(v, other) ==
    other # Nil /\ viewports[v][1] = viewports[other][1]
                /\ viewports[v][2] = viewports[other][2]
                /\ viewports[v][3] = viewports[other][3]
                /\ viewports[v][4] = viewports[other][4]

\* setup, "update viewport": the snapshot keeps the pointer, not a copy
StepViewport(t, m) ==
    IF t.viewport # Nil /\ ~ViewportEquals(t.viewport, m.prevViewport)
    THEN LET r == viewports[t.viewport]
         IN  [Issue(m, <<"Viewport", r[1], r[2], r[3], r[4]>>)
                EXCEPT !.dev.viewport = r, !.prevViewport = t.viewport]
    ELSE m

\* Technique.setup, whole: the steps in source order; a panic ends it
SetupResult(t, order, m) ==
    LET m0 == [m EXCEPT !.setups = @ + 1]
        m1 == StepFrameBuffer(t, m0)
        m2 == StepShader(t, m1)
    IN  IF m2.fault THEN m2
        ELSE LET m3 == EnableLoop(t.enables, 1, m2)
                 m4 == DisableLoop(order, 1, m3)
                 m5 == StepBlendFunc(t, m4)
                 m6 == StepCullFace(t, m5)
                 m7 == StepDepthMask(t, m6)
                 m8 == StepDepthFunc(t, m7)
             IN  StepViewport(t, m8)

\* every order in which a map range can visit the set S
Orderings(S) ==
    {s \in [1..Cardinality(S) -> S] : \A i, j \in 1..Cardinality(S) :
                                         i # j => s[i] # s[j]}

\* --------------------------------------------------------- uniform binder
\* SetUniform1i without its type assertion
SetUniform1iUnchecked(m, location, arg) ==
    [Issue(m, <<"Uniform1i", location, arg[2]>>) EXCEPT !.err = Nil]

\* SetUniform1i, SetUniform1ui, SetUniform1f: the type assertion on arg,
\* then the gl call with the value
SetUniform1i(m, location, arg) ==
    IF arg[1] # "int32" THEN [m EXCEPT !.err = "is not of type int32"]
    ELSE [Issue(m, <<"Uniform1i", location, arg[2]>>) EXCEPT !.err = Nil]

SetUniform1ui(m, location, arg) ==
    IF arg[1] # "uint32" THEN [m EXCEPT !.err = "is not of type uint32"]
    ELSE [Issue(m, <<"Uniform1ui", location, arg[2]>>) EXCEPT !.err = Nil]

SetUniform1f(m, location, arg) ==
    IF arg[1] # "float32" THEN [m EXCEPT !.err = "is not of type float32"]
    ELSE [Issue(m, <<"Uniform1f", location, arg[2]>>) EXCEPT !.err = Nil]

\* SetUniform1iv, SetUniform1uiv: by address, with the count
SetUniform1iv(m, location, count, arg) ==
    IF arg[1] # "*int32" THEN [m EXCEPT !.err = "is not of type *int32"]
    ELSE [Issue(m, <<"Uniform1iv", location, count, arg[2]>>) EXCEPT !.err = Nil]

SetUniform1uiv(m, location, count, arg) ==
    IF arg[1] # "*uint32" THEN [m EXCEPT !.err = "is not of type *uint32"]
    ELSE [Issue(m, <<"Uniform1uiv", location, count, arg[2]>>) EXCEPT !.err = Nil]

\* SetUniform1fv, SetUniform2fv, SetUniform3fv, SetUniform4fv: the same
\* body up to the gl function called
SetUniformNfv(m, glcall, location, count, arg) ==
    IF arg[1] # "*float32" THEN [m EXCEPT !.err = "is not of type *float32"]
    ELSE [Issue(m, <<glcall, location, count, arg[2]>>) EXCEPT !.err = Nil]

\* SetUniformMatrix3fv, SetUniformMatrix4fv: transpose is false
SetUniformMatrixNfv(m, glcall, location, count, arg) ==
    IF arg[1] # "*float32" THEN [m EXCEPT !.err = "is not of type *float32"]
    ELSE [Issue(m, <<glcall, location, count, "false", arg[2]>>)
            EXCEPT !.err = Nil]

\* a switch that takes the by-address entry point for every INT uniform
DispatchIntByAddress(descriptor, arg, m) ==
    IF descriptor.Type = "INT"
    THEN SetUniform1iv(m, descriptor.Location, descriptor.Count, arg)
    ELSE [m EXCEPT !.err = "is not of type *float32"]

\* the switch of SetUniform on descriptor.Type; no case matches a type
\* outside the ten, and the function then returns nil
Dispatch(descriptor, arg, m) ==
    LET typ == descriptor.Type
        location == descriptor.Location
        count == descriptor.Count
    IN  CASE typ = "SAMPLER_2D" -> SetUniform1i(m, location, arg)
          [] typ = "SAMPLER_CUBE" -> SetUniform1i(m, location, arg)
          [] typ = "INT" ->
               IF count > 1 THEN SetUniform1iv(m, location, count, arg)
               ELSE SetUniform1i(m, location, arg)
          [] typ = "UNSIGNED_INT" ->
               IF count > 1 THEN SetUniform1uiv(m, location, count, arg)
               ELSE SetUniform1ui(m, location, arg)
          [] typ = "FLOAT" ->
               IF count > 1
               THEN SetUniformNfv(m, "Uniform1fv", location, count, arg)
               ELSE SetUniform1f(m, location, arg)
          [] typ = "FLOAT_VEC2" ->
               SetUniformNfv(m, "Uniform2fv", location, count, arg)
          [] typ = "FLOAT_VEC3" ->
               SetUniformNfv(m, "Uniform3fv", location, count, arg)
          [] typ = "FLOAT_VEC4" ->
               SetUniformNfv(m, "Uniform4fv", location, count, arg)
          [] typ = "FLOAT_MAT3" ->
               SetUniformMatrixNfv(m, "UniformMatrix3fv", location, count, arg)
          [] typ = "FLOAT_MAT4" ->
               SetUniformMatrixNfv(m, "UniformMatrix4fv", location, count, arg)
          [] OTHER -> [m EXCEPT !.err = Nil]

\* SetUniform without the lookup failure: an unknown name succeeds
SetUniformResultNoLookup(descs, name, arg, m) ==
    [m EXCEPT !.err = Nil]

\* Shader.SetUniform on a non-nil shader whose descriptor map is `descs`
SetUniformResult(descs, name, arg, m) ==
    IF name \notin DOMAIN descs
    THEN [m EXCEPT !.err = "uniform was not recognized"]
    ELSE Dispatch(descs[name], arg, m)

\* the null terminator the device appends to every name it writes
Nul == "NUL"

\* the bytes GetActiveUniformName and GetActiveUniformBlockName write
\* for a name: its characters, then the terminator (the name length the
\* device reports counts the terminator)
NameBytes(name) ==
    [i \in 1..(Len(name) + 1) |->
        IF i <= Len(name) THEN SubSeq(name, i, i) ELSE Nul]

\* toString: the bytes but the last, as a string
RECURSIVE toString(_)
toString(buff) ==
    IF Len(buff) <= 1 THEN ""
    ELSE Head(buff) \o toString(Tail(buff))

\* name[:len(name)-1]
TrimLast(name) == SubSeq(name, 1, Len(name) - 1)

\* the binding location the device gives a uniform (GetUniformLocation)
LocationOf(name) == IF name = "u" THEN 0 ELSE 4

\* the descriptors queryUniforms can store under a name
Descriptors(name) ==
    [Name : {TrimLast(name)}, Type : UniformTypes, Count : UniformCounts,
     Location : {LocationOf(name)}]

\* the descriptor maps a successful link can leave in s.descriptors
DescriptorMaps ==
    UNION {{d \in [names -> UNION {Descriptors(n) : n \in names}] :
               \A n \in names : d[n] \in Descriptors(n)} :
           names \in SUBSET UniformNames}

\* ------------------------------------------------------ block descriptors
\* an AlignedSize that returns Size when Size is a multiple of Alignment
AlignedSizeValueCeil(u) ==
    Add32(u.Size, (u.Alignment - (u.Size % u.Alignment)) % u.Alignment)

\* UniformBlockDescriptor.AlignedSize, in int32 arithmetic
AlignedSizeValue(u) ==
    Sub32(Add32(u.Size, u.Alignment), u.Size % u.Alignment)

\* UniformBlockDescriptor.UnAlignedSize
UnAlignedSizeValue(u) == u.Size

\* ------------------------------------------------------------- commands
\* a map assignment that keeps the entry a key already has
PutIfAbsent(map, k, v) ==
    [x \in DOMAIN map \cup {k} |-> IF x \in DOMAIN map THEN map[x] ELSE v]

\* m[k] = v on a Go map
Put(map, k, v) ==
    [x \in DOMAIN map \cup {k} |-> IF x = k THEN v ELSE map[x]]

\* &Command{}
NewCommandValue ==
    [uniforms |-> EmptyMap, textures |-> EmptyMap, renderable |-> Nil]

\* Texture.Bind: the unit is activated before t.id is read
TextureBind(texture, location, m) ==
    LET m1 == Issue(m, <<"ActiveTexture", location>>)
    IN  IF texture = Nil THEN [m1 EXCEPT !.fault = TRUE]
        ELSE Issue(m1, <<"BindTexture", "TEXTURE_2D", textures[texture].id>>)

\* Renderable.Bind and Renderable.Unbind
RenderableBind(r, m) == Issue(m, <<"BindVertexArray", renderables[r].id>>)

RenderableUnbind(r, m) == Issue(m, <<"BindVertexArray", 0>>)

\* Renderable.Draw, with the gl call of IndexBuffer.Draw,
\* IndexBuffer.DrawInstanced, VertexBuffer.Draw, VertexBuffer.DrawInstanced
RenderableDraw(r, m) ==
    LET o == renderables[r]
    IN  IF o.indexbuffer # Nil
        THEN IF o.primcount > 0
             THEN Issue(m, <<"DrawElementsInstanced", o.mode, o.count, o.typ,
                             o.byteOffset, o.primcount>>)
             ELSE Issue(m, <<"DrawElements", o.mode, o.count, o.typ,
                             o.byteOffset>>)
        ELSE IF o.primcount > 0
             THEN Issue(m, <<"DrawArraysInstanced", o.mode, o.first, o.count,
                             o.primcount>>)
             ELSE Issue(m, <<"DrawArrays", o.mode, o.first, o.count>>)

\* range c.textures, visiting the units in `order`
RECURSIVE TextureLoop(_, _, _, _)
TextureLoop(c, order, i, m) ==
    IF i > Len(order) \/ m.fault THEN m
    ELSE TextureLoop(c, order, i + 1,
                     TextureBind(c.textures[order[i]], order[i], m))

\* range c.uniforms, visiting the names in `order`; the error of
\* SetUniform is dropped, a nil shader faults at s.descriptors
RECURSIVE UniformLoop(_, _, _, _, _)
UniformLoop(c, shader, order, i, m) ==
    IF i > Len(order) \/ m.fault THEN m
    ELSE IF shader = Nil THEN [m EXCEPT !.fault = TRUE]
    ELSE UniformLoop(c, shader, order, i + 1,
                     [SetUniformResult(descriptors[shader], order[i],
                                       c.uniforms[order[i]], m)
                        EXCEPT !.err = Nil])

\* the last three statements of Execute; a nil renderable faults at r.id
DrawRenderable(c, m) ==
    IF c.renderable = Nil THEN [m EXCEPT !.fault = TRUE]
    ELSE RenderableUnbind(c.renderable,
             RenderableDraw(c.renderable, RenderableBind(c.renderable, m)))

\* an Execute that draws before it binds textures and sets uniforms
ExecuteResultDrawFirst(c, shader, order, m) ==
    LET m1 == DrawRenderable(c, m)
        m2 == TextureLoop(c, order[1], 1, m1)
    IN  UniformLoop(c, shader, order[2], 1, m2)

\* c.Execute(shader); order = <<order of the textures, of the uniforms>>
ExecuteResult(c, shader, order, m) ==
    LET m1 == TextureLoop(c, order[1], 1, m)
        m2 == UniformLoop(c, shader, order[2], 1, m1)
    IN  IF m2.fault THEN m2 ELSE DrawRenderable(c, m2)

\* the loop of Draw over the list
RECURSIVE CommandLoop(_, _, _, _, _)
CommandLoop(commands, shader, orders, i, m) ==
    IF i > Len(commands) \/ m.fault THEN m
    ELSE CommandLoop(commands, shader, orders, i + 1,
                     ExecuteResult(cmds[commands[i]], shader, orders[i], m))

\* t.Draw(commands)
DrawResult(t, commands, stale, orders, m) ==
    LET m1 == SetupResult(t, stale, m)
    IN  IF m1.fault THEN m1
        ELSE CommandLoop(commands, t.shader, orders, 1, m1)

\* the orders in which the ranges of one Execute can visit the two maps
ExecuteOrders(c) ==
    Orderings(DOMAIN c.textures) \X Orderings(DOMAIN c.uniforms)

\* one pair of orders for every position of the list
RECURSIVE DrawOrders(_)
DrawOrders(commands) ==
    IF commands = <<>> THEN {<<>>}
    ELSE {<<first>> \o rest :
            first \in ExecuteOrders(cmds[Head(commands)]),
            rest \in DrawOrders(Tail(commands))}

\* the lists a caller can hand to Draw
CommandLists == UNION {[1..n -> CmdIds] : n \in 0..MaxCommands}

\* ------------------------------------------------------- shader lifecycle
\* What the device reports about a linked program: its active uniforms
\* in index order (index = position - 1), each with name, type, count,
\* parent block index (-1 outside a block), byte offset and location;
\* its active blocks in index order, each with name and data size; the
\* offset alignment.
UniformReport(name, typ, count, block) ==
    [name |-> name, typ |-> typ, count |-> count, block |-> block,
     offset |-> IF block = -1 THEN -1 ELSE IF name = "u" THEN 0 ELSE 16,
     location |-> IF block = -1 THEN LocationOf(name) ELSE -1]

UniformReports(blockIndices) ==
    UNION {{[i \in DOMAIN names |->
               UniformReport(names[i], f[i][1], f[i][2], f[i][3])] :
              f \in [DOMAIN names ->
                       ReportTypes \X UniformCounts
                                   \X ({-1} \cup blockIndices)]} :
           names \in ReportNames}

Reports ==
    UNION {[uniforms : UniformReports(0..(n - 1)),
            blocks : {[k \in 1..n |-> [name |-> ReportBlocks[k],
                                       size |-> size]] :
                        size \in ReportSizes},
            alignment : ReportAlignments] : n \in ReportBlockCounts}

\* gl.AttachShader and gl.DeleteShader
GlAttachShader(m, id, shader) ==
    [Issue(m, <<"AttachShader", id, shader>>)
       EXCEPT !.dev.shaders = @ \cup {<<id, shader>>}]

GlDeleteShader(m, shader) ==
    [Issue(m, <<"DeleteShader", shader>>)
       EXCEPT !.dev.shaders = {p \in @ : p[2] # shader}]

\* deleteShaders
DeleteShaders(shaders, m) ==
    LET Loop[i \in 1..(Len(shaders) + 1)] ==
            IF i = 1 THEN m
            ELSE GlDeleteShader(Loop[i - 1], shaders[i - 1])
    IN  Loop[Len(shaders) + 1]

\* queryUniforms, first loop: a descriptor for every uniform outside a
\* block, under the uniform's name
RECURSIVE QueryDescriptors(_, _, _)
QueryDescriptors(uniforms, i, map) ==
    IF i > Len(uniforms) THEN map
    ELSE IF uniforms[i].block = -1
    THEN LET name == toString(NameBytes(uniforms[i].name))
         IN  QueryDescriptors(uniforms, i + 1,
                 Put(map, name,
                     [Name |-> TrimLast(name),
                      Type |-> uniforms[i].typ, Count |-> uniforms[i].count,
                      Location |-> uniforms[i].location]))
    ELSE QueryDescriptors(uniforms, i + 1, map)

\* an inner loop that takes every uniform that has a parent block
RECURSIVE QueryOffsetsAnyBlock(_, _, _, _)
QueryOffsetsAnyBlock(uniforms, index, i, map) ==
    IF i > Len(uniforms) THEN map
    ELSE IF uniforms[i].block # -1
    THEN QueryOffsetsAnyBlock(uniforms, index, i + 1,
                              Put(map, toString(NameBytes(uniforms[i].name)),
                                  uniforms[i].offset))
    ELSE QueryOffsetsAnyBlock(uniforms, index, i + 1, map)

\* queryUniforms, inner loop: the offsets of the uniforms whose parent
\* is the block `index`
RECURSIVE QueryOffsets(_, _, _, _)
QueryOffsets(uniforms, index, i, map) ==
    IF i > Len(uniforms) THEN map
    ELSE IF uniforms[i].block = index
    THEN QueryOffsets(uniforms, index, i + 1,
                      Put(map, toString(NameBytes(uniforms[i].name)),
                          uniforms[i].offset))
    ELSE QueryOffsets(uniforms, index, i + 1, map)

\* queryUniforms, second loop: a descriptor for every block
RECURSIVE QueryBlockDescriptors(_, _, _)
QueryBlockDescriptors(report, k, map) ==
    IF k > Len(report.blocks) THEN map
    ELSE LET blockName == toString(NameBytes(report.blocks[k].name))
         IN  QueryBlockDescriptors(report, k + 1,
                 Put(map, blockName,
                     [Name |-> blockName, Index |-> k - 1,
                      Size |-> report.blocks[k].size,
                      Offsets |-> QueryOffsets(report.uniforms, k - 1, 1,
                                               EmptyMap),
                      Alignment |-> report.alignment]))

\* queryUniforms, second loop: the binding point of every block
RECURSIVE BindBlocks(_, _, _, _)
BindBlocks(id, report, k, m) ==
    IF k > Len(report.blocks) THEN m
    ELSE BindBlocks(id, report, k + 1,
                    Issue(m, <<"UniformBlockBinding", id, k - 1, k - 1>>))

\* ---------------------------------------------------------------- actions
\* no shader has been linked: every descriptor map is nil
Unlinked == [s \in Shaders |-> EmptyMap]

\* &Shader{}: no program, no recorded shader objects
NewShaderValue == [id |-> "0", shaders |-> <<>>]

\* a Shader after NewVertFragShader: its program, the shader objects gone
LinkedShaderValue(s) == [id |-> ProgramOf(s), shaders |-> <<>>]

\* NewFrameBuffer: the generated id, an empty attachment map
NewFrameBufferValue(f) == [id |-> f, textures |-> EmptyMap]

InitCache ==
    /\ tech = NewTechniqueValue
    /\ viewports = [v \in ViewportIds |-> Rect(640)]
    /\ prevBlendFunc = None /\ prevCullFace = None
    /\ prevDepthMask = None /\ prevDepthFunc = None
    /\ prevViewport = Nil /\ prevShader = Nil /\ prevFrameBuffer = Nil
    /\ prevEnables = {}
    /\ dev = DevInit
    /\ calls = <<>>
    /\ fault = FALSE
    /\ op = "build"
    /\ lastApplied = None
    /\ err = Nil
    /\ uarg = None
    /\ drawn = <<>>
    /\ setups = 0
    /\ ret = None
    /\ framebuffers = [f \in FrameBuffers |-> NewFrameBufferValue(f)]
    /\ lastSet = EmptyMap

\* no Command, Texture or Renderable has been made
NoObjects ==
    /\ programs = [s \in Shaders |-> NewShaderValue]
    /\ blockDescriptors = Unlinked
    /\ cmds = EmptyMap
    /\ textures = EmptyMap
    /\ renderables = EmptyMap

Init ==
    /\ InitCache
    /\ descriptors = Unlinked
    /\ NoObjects

Snapshot == <<prevBlendFunc, prevCullFace, prevDepthMask, prevDepthFunc,
              prevViewport, prevShader, prevFrameBuffer, prevEnables>>

\* a builder call: no gl call, the snapshot and the device untouched
Builder ==
    /\ ~fault
    /\ calls' = <<>>
    /\ op' = "build"
    /\ err' = Nil
    /\ uarg' = None
    /\ ret' = None
    /\ drawn' = <<>>
    /\ setups' = 0
    /\ UNCHANGED <<Snapshot, dev, fault, lastApplied, descriptors, programs, blockDescriptors,
                   framebuffers, textures,
                   renderables, lastSet>>

SetField(t) ==
    /\ tech' = t
    /\ Builder
    /\ UNCHANGED <<viewports, cmds>>

NewTechnique == SetField(NewTechniqueValue)

\* &Technique{}: the zero value of the struct, every field nil
ZeroTechniqueValue ==
    [enables |-> <<>>, shader |-> Nil, viewport |-> Nil, framebuffer |-> Nil,
     blendFunc |-> None, cullFace |-> None, depthMask |-> None,
     depthFunc |-> None]

ZeroTechnique == SetField(ZeroTechniqueValue)

Enable(enable) ==
    /\ Len(tech.enables) < MaxEnables
    /\ SetField([tech EXCEPT !.enables = Append(@, enable)])

Shader(shader) == SetField([tech EXCEPT !.shader = shader])

Viewport(viewport) == SetField([tech EXCEPT !.viewport = viewport])

\* the framebuffer field of Technique (no exported setter assigns it)
FrameBuffer(framebuffer) ==
    SetField([tech EXCEPT !.framebuffer = framebuffer])

BlendFunc(sfactor, dfactor) ==
    SetField([tech EXCEPT !.blendFunc = <<sfactor, dfactor>>])

CullFace(mode) == SetField([tech EXCEPT !.cullFace = <<mode>>])

DepthMask(flag) == SetField([tech EXCEPT !.depthMask = <<flag>>])

DepthFunc(xfunc) == SetField([tech EXCEPT !.depthFunc = <<xfunc>>])

\* the caller assigns an exported field of one of its Viewport objects
ViewportWrite(v, w) ==
    /\ viewports[v][3] # w
    /\ viewports' = [viewports EXCEPT ![v][3] = w]
    /\ Builder
    /\ UNCHANGED <<tech, cmds>>

\* what an operation that ran on the machine m leaves behind
Commit(r) ==
    /\ prevBlendFunc' = r.prevBlendFunc
    /\ prevCullFace' = r.prevCullFace
    /\ prevDepthMask' = r.prevDepthMask
    /\ prevDepthFunc' = r.prevDepthFunc
    /\ prevViewport' = r.prevViewport
    /\ prevShader' = r.prevShader
    /\ prevFrameBuffer' = r.prevFrameBuffer
    /\ prevEnables' = r.prevEnables
    /\ dev' = r.dev
    /\ calls' = r.calls
    /\ fault' = r.fault
    /\ setups' = r.setups

\* t.setup()
Setup ==
    /\ ~fault
    /\ \E order \in Orderings(StaleEnables(tech, Machine)) :
         Commit(SetupResult(tech, order, Machine))
    /\ op' = "setup"
    /\ lastApplied' = <<[tech EXCEPT !.enables = Requested(tech)]>>
    /\ err' = Nil
    /\ uarg' = None
    /\ ret' = None
    /\ drawn' = <<>>
    /\ UNCHANGED <<tech, viewports, descriptors, programs, blockDescriptors,
                   framebuffers, cmds, textures, renderables,
                   lastSet>>

\* The render-state cache under techniques that set a framebuffer, a
\* shader, capabilities and a blend function.
Next ==
    \/ NewTechnique
    \/ \E c \in Caps : Enable(c)
    \/ \E s \in Shaders : Shader(s)
    \/ \E f \in FrameBuffers : FrameBuffer(f)
    \/ \E b \in BlendFuncs : BlendFunc(b[1], b[2])
    \/ Setup

Spec == Init /\ [][Next]_vars

\* The render-state cache under techniques that set a shader, the cull
\* face, the depth mask, the depth function and a viewport.
NextFixed ==
    \/ NewTechnique
    \/ \E s \in Shaders : Shader(s)
    \/ \E mode \in CullModes : CullFace(mode)
    \/ \E flag \in BOOLEAN : DepthMask(flag)
    \/ \E f \in DepthFuncs : DepthFunc(f)
    \/ \E v \in ViewportIds : Viewport(v)
    \/ \E v \in ViewportIds, w \in Widths : ViewportWrite(v, w)
    \/ Setup

SpecFixed == Init /\ [][NextFixed]_vars

\* s.SetUniform(name, arg)
SetUniform(s, name, arg) ==
    /\ ~fault
    /\ LET r == SetUniformResult(descriptors[s], name, arg, Machine)
       IN  /\ calls' = r.calls
           /\ err' = r.err
    /\ op' = "SetUniform"
    /\ uarg' = <<s, name, arg>>
    /\ ret' = None
    /\ drawn' = <<>>
    /\ setups' = 0
    /\ UNCHANGED <<tech, viewports, Snapshot, dev, fault, lastApplied,
                   descriptors, programs, blockDescriptors,
                   framebuffers, cmds, textures, renderables,
                   lastSet>>

\* The uniform binder on a linked shader S1, whatever its reflection
\* found, and on a shader that was never linked.
InitUniform ==
    /\ InitCache
    /\ \E d \in DescriptorMaps :
         descriptors = [Unlinked EXCEPT !["S1"] = d]
    /\ programs = [s \in Shaders |-> IF s = "S1" THEN LinkedShaderValue(s)
                                     ELSE NewShaderValue]
    /\ blockDescriptors = Unlinked
    /\ cmds = EmptyMap
    /\ textures = EmptyMap
    /\ renderables = EmptyMap

NextUniform ==
    \E s \in Shaders, name \in NameInputs, arg \in Args :
        SetUniform(s, name, arg)

SpecUniform == InitUniform /\ [][NextUniform]_vars

\* a builder call on the Command c
SetCommand(c, value) ==
    /\ cmds' = [cmds EXCEPT ![c] = value]
    /\ Builder
    /\ UNCHANGED <<tech, viewports>>

\* c.Uniform(name, value)
Uniform(c, name, value) ==
    SetCommand(c, [cmds[c] EXCEPT !.uniforms = Put(@, name, value)])

\* c.Texture(location, texture)
Texture(c, location, texture) ==
    SetCommand(c, [cmds[c] EXCEPT !.textures = Put(@, location, texture)])

\* c.Renderable(renderable)
Renderable(c, renderable) ==
    SetCommand(c, [cmds[c] EXCEPT !.renderable = renderable])

\* t.Draw(commands)
Draw(commands) ==
    /\ ~fault
    /\ \E stale \in Orderings(StaleEnables(tech, Machine)),
          orders \in DrawOrders(commands) :
         Commit(DrawResult(tech, commands, stale, orders, Machine))
    /\ op' = "Draw"
    /\ drawn' = commands
    /\ lastApplied' = <<[tech EXCEPT !.enables = Requested(tech)]>>
    /\ err' = Nil
    /\ uarg' = None
    /\ ret' = None
    /\ UNCHANGED <<tech, viewports, descriptors, programs, blockDescriptors,
                   framebuffers, cmds, textures, renderables,
                   lastSet>>

\* the shaders, renderables and commands of InitDraw
InitDrawObjects ==
    /\ descriptors =
         [Unlinked EXCEPT
            !["S1"] = Put(Put(EmptyMap,
                              "u", [Name |-> TrimLast("u"), Type |-> "INT",
                                    Count |-> 1,
                                    Location |-> LocationOf("u")]),
                          "v", [Name |-> TrimLast("v"), Type |-> "INT",
                                Count |-> 1, Location |-> LocationOf("v")]),
            !["S2"] = Put(EmptyMap,
                          "u", [Name |-> TrimLast("u"), Type |-> "FLOAT",
                                Count |-> 1,
                                Location |-> LocationOf("u")])]
    /\ programs = [s \in Shaders |-> LinkedShaderValue(s)]
    /\ blockDescriptors = Unlinked
    /\ cmds = [c \in CmdIds |-> NewCommandValue]
    /\ renderables =
         [r \in RenderableIds |->
            IF r = "R1"
            THEN [id |-> 1, indexbuffer |-> Nil, mode |-> "TRIANGLES",
                  first |-> 0, count |-> 3, typ |-> "0", byteOffset |-> 0,
                  primcount |-> 0]
            ELSE [id |-> 2, indexbuffer |-> "IB1", mode |-> "TRIANGLES",
                  first |-> 0, count |-> 6, typ |-> "UNSIGNED_SHORT",
                  byteOffset |-> 0, primcount |-> 2]]

\* Two linked shaders, one uploaded texture, two uploaded renderables
\* (one drawn as arrays, one as instanced elements) and two fresh
\* commands.
InitDraw ==
    /\ InitCache
    /\ InitDrawObjects
    /\ textures = [x \in TextureIds |-> [id |-> TextureName(x)]]

NextDraw ==
    \/ NewTechnique
    \/ \E s \in Shaders : Shader(s)
    \/ \E c \in CmdIds, name \in UniformNames, value \in CmdArgs :
         Uniform(c, name, value)
    \/ \E c \in CmdIds, location \in Units, texture \in TextureIds :
         Texture(c, location, texture)
    \/ \E c \in CmdIds, renderable \in RenderableIds :
         Renderable(c, renderable)
    \/ \E commands \in CommandLists : Draw(commands)

SpecDraw == InitDraw /\ [][NextDraw]_vars

\* an accessor of the block descriptor `name` of the shader s
BlockAccessor(s, name, value, accessor) ==
    /\ ~fault
    /\ name \in DOMAIN blockDescriptors[s]
    /\ ret' = <<value>>
    /\ uarg' = <<s, name>>
    /\ op' = accessor
    /\ calls' = <<>>
    /\ err' = Nil
    /\ drawn' = <<>>
    /\ setups' = 0
    /\ UNCHANGED <<tech, viewports, Snapshot, dev, fault, lastApplied,
                   descriptors, programs, blockDescriptors, framebuffers,
                   cmds, textures, renderables,
                   lastSet>>

\* s.UniformBlockDescriptors()[name].AlignedSize()
AlignedSize(s, name) ==
    BlockAccessor(s, name, AlignedSizeValue(blockDescriptors[s][name]),
                  "AlignedSize")

\* s.UniformBlockDescriptors()[name].UnAlignedSize()
UnAlignedSize(s, name) ==
    BlockAccessor(s, name, UnAlignedSizeValue(blockDescriptors[s][name]),
                  "UnAlignedSize")

\* A linked shader with one uniform block, whatever size the device
\* reported for it and whatever the device's offset alignment is.
InitAlign ==
    /\ InitCache
    /\ descriptors = Unlinked
    /\ programs = [s \in Shaders |-> IF s = "S1" THEN LinkedShaderValue(s)
                                     ELSE NewShaderValue]
    /\ \E size \in BlockSizes, alignment \in Alignments :
         blockDescriptors =
           [Unlinked EXCEPT
              !["S1"] = Put(EmptyMap, "B",
                            [Name |-> "B", Index |-> 0, Size |-> size,
                             Offsets |-> EmptyMap, Alignment |-> alignment])]
    /\ cmds = EmptyMap
    /\ textures = EmptyMap
    /\ renderables = EmptyMap

NextAlign ==
    \/ \E s \in Shaders, name \in BlockNames : AlignedSize(s, name)
    \/ \E s \in Shaders, name \in BlockNames : UnAlignedSize(s, name)

SpecAlign == InitAlign /\ [][NextAlign]_vars

\* One Command built from two textures, two units and two values per
\* uniform name, and drawn alone by a technique with the shader S1.
InitCommand ==
    /\ InitCache
    /\ InitDrawObjects
    /\ textures = [x \in BuilderTextureIds |-> [id |-> TextureName(x)]]

NextCommand ==
    \/ Shader("S1")
    \/ \E name \in UniformNames, value \in BuilderArgs :
         Uniform("K1", name, value)
    \/ \E location \in BuilderUnits, texture \in BuilderTextureIds :
         Texture("K1", location, texture)
    \/ \E renderable \in RenderableIds : Renderable("K1", renderable)
    \/ Draw(<<"K1">>)

SpecCommand == InitCommand /\ [][NextCommand]_vars

\* an operation on the Shader s that leaves the cache and the caller's
\* other objects alone
ShaderOp(name, s, arg) ==
    /\ ~fault
    /\ op' = name
    /\ uarg' = <<s, arg>>
    /\ ret' = None
    /\ drawn' = <<>>
    /\ setups' = 0
    /\ UNCHANGED <<tech, viewports, Snapshot, fault, lastApplied,
                   framebuffers, cmds, textures, renderables,
                   lastSet>>

\* the `if s.shaders == nil` of AttachShader: the shader object is
\* recorded only while none is
AttachShaderRecord(shaders, shader) ==
    IF shaders = <<>> THEN <<shader>> ELSE shaders

\* s.AttachShader(shader)
AttachShader(s, shader) ==
    LET created == programs[s].id = "0"
        id == IF created THEN ProgramOf(s) ELSE programs[s].id
        m1 == IF created THEN Issue(Machine, <<"CreateProgram">>) ELSE Machine
        m2 == GlAttachShader(m1, id, shader)
    IN  /\ programs' =
              [programs EXCEPT
                 ![s] = [id |-> id,
                         shaders |-> AttachShaderRecord(programs[s].shaders,
                                                        shader)]]
        /\ calls' = m2.calls
        /\ dev' = m2.dev
        /\ err' = Nil
        /\ ShaderOp("AttachShader", s, shader)
        /\ UNCHANGED <<descriptors, blockDescriptors>>

\* s.LinkProgram(): the device links or refuses (it refuses the program
\* 0), and after a link reports what `report` says
LinkProgram(s, linked, report) ==
    LET id == programs[s].id
        m1 == Issue(Machine, <<"LinkProgram", id>>)
        m2 == DeleteShaders(programs[s].shaders, m1)
    IN  /\ linked => id # "0"
        /\ programs' = [programs EXCEPT ![s].shaders = <<>>]
        /\ dev' = m2.dev
        /\ IF linked
           THEN /\ descriptors' =
                     [descriptors EXCEPT
                        ![s] = QueryDescriptors(report.uniforms, 1, EmptyMap)]
                /\ blockDescriptors' =
                     [blockDescriptors EXCEPT
                        ![s] = QueryBlockDescriptors(report, 1, EmptyMap)]
                /\ calls' = BindBlocks(id, report, 1, m2).calls
                /\ err' = Nil
           ELSE /\ calls' = m2.calls
                /\ err' = "failed to link program"
                /\ UNCHANGED <<descriptors, blockDescriptors>>
        /\ ShaderOp("LinkProgram", s, IF linked THEN report ELSE None)

\* s.Destroy()
Destroy(s) ==
    /\ IF programs[s].id # "0"
       THEN /\ calls' = <<<<"DeleteProgram", programs[s].id>>>>
            /\ programs' = [programs EXCEPT ![s].id = "0"]
       ELSE /\ calls' = <<>>
            /\ UNCHANGED programs
    /\ err' = Nil
    /\ ShaderOp("Destroy", s, None)
    /\ UNCHANGED <<dev, descriptors, blockDescriptors>>

\* Shaders that are attached to, linked, relinked, destroyed and asked
\* to set uniforms, in any order.
InitShader ==
    /\ InitCache
    /\ descriptors = Unlinked
    /\ NoObjects

NextShader ==
    \/ \E s \in Linkable, shader \in ShaderObjects : AttachShader(s, shader)
    \/ \E s \in Linkable, report \in Reports : LinkProgram(s, TRUE, report)
    \/ \E s \in Linkable : LinkProgram(s, FALSE, None)
    \/ \E s \in Linkable : Destroy(s)
    \/ \E s \in Linkable, name \in NameInputs, arg \in CmdArgs :
         SetUniform(s, name, arg)

SpecShader == InitShader /\ [][NextShader]_vars

\* an AttachTexture that assigns the map entry whatever the status is
AttachTextureResultAlways(f, attachment, texture, complete, m) ==
    LET m1 == FrameBufferBind(m, framebuffers[f].id)
        m2 == Issue(m1, <<"FramebufferTexture2D", "FRAMEBUFFER", attachment,
                          "TEXTURE_2D", textures[texture].id, 0>>)
        m3 == Issue(m2, <<"CheckFramebufferStatus", "FRAMEBUFFER">>)
        m4 == FrameBufferUnbind(m3)
    IN  [m |-> [m4 EXCEPT !.err = IF complete THEN Nil
                                  ELSE "framebuffer incomplete"],
         textures |-> Put(framebuffers[f].textures, attachment, texture)]

\* f.AttachTexture(attachment, texture); `complete` is what the device
\* answers to CheckFramebufferStatus. The result is the machine and the
\* attachment map of f.
AttachTextureResult(f, attachment, texture, complete, m) ==
    IF attachment \in DOMAIN framebuffers[f].textures
    THEN [m |-> [m EXCEPT !.err = "texture already attached"],
          textures |-> framebuffers[f].textures]
    ELSE LET m1 == FrameBufferBind(m, framebuffers[f].id)
             m2 == Issue(m1, <<"FramebufferTexture2D", "FRAMEBUFFER",
                               attachment, "TEXTURE_2D",
                               textures[texture].id, 0>>)
             m3 == Issue(m2, <<"CheckFramebufferStatus", "FRAMEBUFFER">>)
             m4 == FrameBufferUnbind(m3)
         IN  IF complete
             THEN [m |-> [m4 EXCEPT !.err = Nil],
                   textures |-> Put(framebuffers[f].textures, attachment,
                                    texture)]
             ELSE [m |-> [m4 EXCEPT !.err = "framebuffer incomplete"],
                   textures |-> framebuffers[f].textures]

\* an operation on the FrameBuffer f: the snapshot of the cache and the
\* caller's other objects are left alone
FrameBufferOp(name, f, arg) ==
    /\ ~fault
    /\ op' = name
    /\ uarg' = <<f>> \o arg
    /\ drawn' = <<>>
    /\ setups' = 0
    /\ UNCHANGED <<tech, viewports, Snapshot, fault, lastApplied, descriptors,
                   programs, blockDescriptors, cmds, textures, renderables,
                   lastSet>>

AttachTexture(f, attachment, texture, complete) ==
    LET r == AttachTextureResult(f, attachment, texture, complete, Machine)
    IN  /\ framebuffers' = [framebuffers EXCEPT ![f].textures = r.textures]
        /\ dev' = r.m.dev
        /\ calls' = r.m.calls
        /\ err' = r.m.err
        /\ ret' = None
        /\ FrameBufferOp("AttachTexture", f, <<attachment, texture>>)

\* f.Texture(attachment): the texture, or nil, and whether there is one
FrameBufferTexture(f, attachment) ==
    /\ ret' = IF attachment \in DOMAIN framebuffers[f].textures
              THEN <<framebuffers[f].textures[attachment], TRUE>>
              ELSE <<Nil, FALSE>>
    /\ calls' = <<>>
    /\ err' = Nil
    /\ FrameBufferOp("Texture", f, <<attachment>>)
    /\ UNCHANGED <<framebuffers, dev>>

\* Framebuffers that are given attachments and used by techniques.
InitFrameBuffer ==
    /\ InitCache
    /\ descriptors = Unlinked
    /\ programs = [s \in Shaders |-> NewShaderValue]
    /\ blockDescriptors = Unlinked
    /\ cmds = EmptyMap
    /\ textures = [x \in BuilderTextureIds |-> [id |-> TextureName(x)]]
    /\ renderables = EmptyMap

NextFrameBuffer ==
    \/ \E f \in FrameBuffers, attachment \in Attachments,
          texture \in BuilderTextureIds, complete \in BOOLEAN :
         AttachTexture(f, attachment, texture, complete)
    \/ \E f \in FrameBuffers, attachment \in Attachments :
         FrameBufferTexture(f, attachment)
    \/ NewTechnique
    \/ \E f \in FrameBuffers : FrameBuffer(f)
    \/ Setup

SpecFrameBuffer == InitFrameBuffer /\ [][NextFrameBuffer]_vars

\* &Renderable{} after Upload: the generated id, no index buffer, every
\* draw parameter at its zero value (the mode 0 is POINTS)
NewRenderableValue ==
    [id |-> 1, indexbuffer |-> Nil, mode |-> "POINTS", first |-> 0,
     count |-> 0, typ |-> "0", byteOffset |-> 0, primcount |-> 0]

\* a setter of the Renderable r: no gl call, the cache and the device
\* untouched
SetRenderable(r, value) ==
    /\ ~fault
    /\ renderables' = [renderables EXCEPT ![r] = value]
    /\ calls' = <<>>
    /\ op' = "set"
    /\ err' = Nil
    /\ uarg' = None
    /\ ret' = None
    /\ drawn' = <<>>
    /\ setups' = 0
    /\ UNCHANGED <<tech, viewports, Snapshot, dev, fault, lastApplied,
                   descriptors, programs, blockDescriptors, framebuffers,
                   cmds, textures>>

\* r.SetIndexBuffer(ib)
SetIndexBuffer(r, ib) ==
    /\ SetRenderable(r, [renderables[r] EXCEPT !.indexbuffer = ib])
    /\ UNCHANGED lastSet

\* r.SetDrawArrays(mode, first, count)
SetDrawArrays(r, mode, first, count) ==
    /\ SetRenderable(r, [renderables[r] EXCEPT !.mode = mode,
                                               !.first = first,
                                               !.count = count])
    /\ lastSet' = Put(lastSet, r, <<"SetDrawArrays", 0>>)

\* r.SetDrawElements(mode, count, typ, byteOffset)
SetDrawElements(r, mode, count, typ, byteOffset) ==
    /\ SetRenderable(r, [renderables[r] EXCEPT !.mode = mode,
                                               !.count = count,
                                               !.typ = typ,
                                               !.byteOffset = byteOffset])
    /\ lastSet' = Put(lastSet, r, <<"SetDrawElements", 0>>)

\* r.SetDrawArraysInstanced(mode, first, count, primcount)
SetDrawArraysInstanced(r, mode, first, count, primcount) ==
    /\ SetRenderable(r, [renderables[r] EXCEPT !.mode = mode,
                                               !.first = first,
                                               !.count = count,
                                               !.primcount = primcount])
    /\ lastSet' = Put(lastSet, r, <<"SetDrawArraysInstanced", primcount>>)

\* r.SetDrawElementsInstanced(mode, count, typ, byteOffset, primcount)
SetDrawElementsInstanced(r, mode, count, typ, byteOffset, primcount) ==
    /\ SetRenderable(r, [renderables[r] EXCEPT !.mode = mode,
                                               !.count = count,
                                               !.typ = typ,
                                               !.byteOffset = byteOffset,
                                               !.primcount = primcount])
    /\ lastSet' = Put(lastSet, r, <<"SetDrawElementsInstanced", primcount>>)

\* r.Draw(), called on its own
RenderableDrawAlone(r) ==
    /\ ~fault
    /\ calls' = RenderableDraw(r, Machine).calls
    /\ op' = "RenderableDraw"
    /\ uarg' = <<r>>
    /\ err' = Nil
    /\ ret' = None
    /\ drawn' = <<>>
    /\ setups' = 0
    /\ UNCHANGED <<tech, viewports, Snapshot, dev, fault, lastApplied,
                   descriptors, programs, blockDescriptors, framebuffers,
                   cmds, textures, renderables, lastSet>>

\* One uploaded Renderable that is given and taken an index buffer, given
\* draw parameters by the four SetDraw* calls in any order, and drawn.
InitRenderable ==
    /\ InitCache
    /\ descriptors = Unlinked
    /\ programs = [s \in Shaders |-> NewShaderValue]
    /\ blockDescriptors = Unlinked
    /\ cmds = EmptyMap
    /\ textures = EmptyMap
    /\ renderables = [r \in Settable |-> NewRenderableValue]

NextRenderable ==
    \/ \E r \in Settable, ib \in IndexBuffers \cup {Nil} : SetIndexBuffer(r, ib)
    \/ \E r \in Settable, mode \in DrawModes, count \in DrawCounts :
         SetDrawArrays(r, mode, 0, count)
    \/ \E r \in Settable, mode \in DrawModes, count \in DrawCounts,
          typ \in IndexTypes :
         SetDrawElements(r, mode, count, typ, 0)
    \/ \E r \in Settable, mode \in DrawModes, count \in DrawCounts,
          primcount \in PrimCounts :
         SetDrawArraysInstanced(r, mode, 0, count, primcount)
    \/ \E r \in Settable, mode \in DrawModes, count \in DrawCounts,
          typ \in IndexTypes, primcount \in PrimCounts :
         SetDrawElementsInstanced(r, mode, count, typ, 0, primcount)
    \/ \E r \in Settable : RenderableDrawAlone(r)

SpecRenderable == InitRenderable /\ [][NextRenderable]_vars

\* Techniques built by NewTechnique or as the zero value of the struct,
\* given fixed-function state and a viewport, and set up.
NextUnset ==
    \/ NewTechnique
    \/ ZeroTechnique
    \/ \E b \in BlendFuncs : BlendFunc(b[1], b[2])
    \/ \E mode \in CullModes : CullFace(mode)
    \/ \E flag \in BOOLEAN : DepthMask(flag)
    \/ \E f \in DepthFuncs : DepthFunc(f)
    \/ Viewport("V1")
    \/ Setup

SpecUnset == Init /\ [][NextUnset]_vars

\* ------------------------------------------------------ reading the log
\* how many times the log holds exactly this call
Count(log, call) == Cardinality({i \in DOMAIN log : log[i] = call})
\* how many calls of the log are of this gl function
CountOp(log, name) == Cardinality({i \in DOMAIN log : log[i][1] = name})

\* a step of the behaviour that is one run of Technique.setup
SetupStep == op' = "setup"

\* ----------------------------------------------------------------- claims

IdempotentApplyButUnbind ==
    [][(op = "setup" /\ SetupStep
          /\ ~(tech.framebuffer = Nil /\ prevFrameBuffer # Nil))
        => calls' = <<>>]_vars

\* the attributes in which technique t differs from the snapshot; an unset
\* viewport is no opinion and no difference
DiffCount(t) ==
      (IF t.framebuffer # prevFrameBuffer THEN 1 ELSE 0)
    + (IF t.shader # prevShader THEN 1 ELSE 0)
    + Cardinality((Requested(t) \ prevEnables) \cup (prevEnables \ Requested(t)))
    + (IF t.blendFunc # prevBlendFunc THEN 1 ELSE 0)
    + (IF t.cullFace # prevCullFace THEN 1 ELSE 0)
    + (IF t.depthMask # prevDepthMask THEN 1 ELSE 0)
    + (IF t.depthFunc # prevDepthFunc THEN 1 ELSE 0)
    + (IF t.viewport # Nil
          /\ (prevViewport = Nil
                \/ viewports[t.viewport] # viewports[prevViewport])
       THEN 1 ELSE 0)

\* C2 - Minimal diff: a setup issues exactly as many gl calls as the
\* technique has attributes that differ from the snapshot it starts from.
MinimalDiff ==
    [][SetupStep => Len(calls') = DiffCount(tech)]_vars

\* C2 for the setups that run to their end
MinimalDiffCompleted ==
    [][(SetupStep /\ ~fault') => Len(calls') = DiffCount(tech)]_vars

SnapshotTruthfulButFrameBuffer ==
    /\ prevShader # Nil => dev.program = prevShader
    /\ prevEnables = dev.enabled
    /\ prevBlendFunc # None => dev.blendFunc = prevBlendFunc
    /\ prevCullFace # None => dev.cullFace = prevCullFace
    /\ prevDepthMask # None => dev.depthMask = prevDepthMask
    /\ prevDepthFunc # None => dev.depthFunc = prevDepthFunc

\* the two techniques of the end-to-end scenario
ScenarioT1 ==
    [NewTechniqueValue EXCEPT !.shader = "S1", !.enables = <<"DEPTH_TEST">>]
ScenarioT2 ==
    [NewTechniqueValue EXCEPT
        !.shader = "S1", !.blendFunc = <<"SRC_ALPHA", "ONE_MINUS_SRC_ALPHA">>]

EndToEndScenarioNoFrameBuffer ==
    [][(/\ lastApplied = <<[ScenarioT1 EXCEPT !.enables = Requested(ScenarioT1)]>>
        /\ tech = ScenarioT2
        /\ prevFrameBuffer = Nil
        /\ SetupStep)
       => /\ Len(calls') = 2
          /\ Count(calls', <<"Disable", "DEPTH_TEST">>) = 1
          /\ Count(calls', <<"BlendFunc", "SRC_ALPHA", "ONE_MINUS_SRC_ALPHA">>) = 1]_vars

\* ------------------------------------------------------- uniform claims
\* the last operation was SetUniform(UShader, UName, UArg)
SetUniformDone == op = "SetUniform"
UShader == uarg[1]
UName == uarg[2]
UArg == uarg[3]
UKnown == UName \in DOMAIN descriptors[UShader]
UDescriptor == descriptors[UShader][UName]

UniformCalls ==
    {"Uniform1i", "Uniform1ui", "Uniform1f", "Uniform1iv", "Uniform1uiv",
     "Uniform1fv", "Uniform2fv", "Uniform3fv", "Uniform4fv",
     "UniformMatrix3fv", "UniformMatrix4fv"}

\* C7: SetUniform with a name the shader holds no descriptor for returns
\* an error and issues no device call.
UnknownUniformRejected ==
    (SetUniformDone /\ ~UKnown) => (err # Nil /\ calls = <<>>)

\* an unknown name was given to a shader that does hold descriptors
UnknownUniformRejectedWitness ==
    /\ SetUniformDone
    /\ DOMAIN descriptors[UShader] # {}
    /\ ~UKnown
    /\ err = "uniform was not recognized"

\* C8: every SetUniform that returned success issued exactly one uniform
\* device call, whatever the element type of the descriptor.
SuccessIssuesOneCall ==
    (SetUniformDone /\ err = Nil) =>
        (Len(calls) = 1 /\ calls[1][1] \in UniformCalls)

\* the same for the ten element types the switch has a case for
SuccessIssuesOneCallSupported ==
    (SetUniformDone /\ err = Nil /\ UDescriptor.Type \in SupportedTypes) =>
        (Len(calls) = 1 /\ calls[1][1] \in UniformCalls)

\* the table of the dispatch: is the uniform set by address, and which
\* dynamic type must the value have
ByAddress(descriptor) ==
    CASE descriptor.Type \in {"SAMPLER_2D", "SAMPLER_CUBE"} -> FALSE
      [] descriptor.Type \in {"INT", "UNSIGNED_INT", "FLOAT"} ->
           descriptor.Count > 1
      [] OTHER -> TRUE

ElementType(descriptor) ==
    CASE descriptor.Type \in {"SAMPLER_2D", "SAMPLER_CUBE", "INT"} -> "int32"
      [] descriptor.Type = "UNSIGNED_INT" -> "uint32"
      [] OTHER -> "float32"

ExpectedArgType(descriptor) ==
    IF ByAddress(descriptor) THEN "*" \o ElementType(descriptor)
    ELSE ElementType(descriptor)

ExpectedEntryPoint(descriptor) ==
    CASE descriptor.Type \in {"SAMPLER_2D", "SAMPLER_CUBE"} -> "Uniform1i"
      [] descriptor.Type = "INT" ->
           IF descriptor.Count > 1 THEN "Uniform1iv" ELSE "Uniform1i"
      [] descriptor.Type = "UNSIGNED_INT" ->
           IF descriptor.Count > 1 THEN "Uniform1uiv" ELSE "Uniform1ui"
      [] descriptor.Type = "FLOAT" ->
           IF descriptor.Count > 1 THEN "Uniform1fv" ELSE "Uniform1f"
      [] descriptor.Type = "FLOAT_VEC2" -> "Uniform2fv"
      [] descriptor.Type = "FLOAT_VEC3" -> "Uniform3fv"
      [] descriptor.Type = "FLOAT_VEC4" -> "Uniform4fv"
      [] descriptor.Type = "FLOAT_MAT3" -> "UniformMatrix3fv"
      [] descriptor.Type = "FLOAT_MAT4" -> "UniformMatrix4fv"

\* C9: for a known uniform, a value whose dynamic type is not the one
\* the resolved dispatch expects makes SetUniform return an error and
\* issue no device call.
TypeMismatchRejected ==
    (/\ SetUniformDone
     /\ UKnown
     /\ UDescriptor.Type \in SupportedTypes
     /\ UArg[1] # ExpectedArgType(UDescriptor))
        => (err # Nil /\ calls = <<>>)

\* a sampler array was given its value by address: the scalar-int entry
\* point refused it
TypeMismatchRejectedWitness ==
    /\ SetUniformDone
    /\ UKnown
    /\ UDescriptor.Type \in {"SAMPLER_2D", "SAMPLER_CUBE"}
    /\ UDescriptor.Count > 1
    /\ UArg[1] = "*int32"
    /\ err # Nil
    /\ calls = <<>>

\* C10: the entry point, and with it the dynamic type asked of the
\* value, follow from the descriptor alone: samplers scalar-int, INT /
\* UNSIGNED_INT / FLOAT by address when Count > 1 and by value otherwise,
\* vectors and matrices by address; the call carries the descriptor's
\* location and, by address, its count.
DispatchTable ==
    (SetUniformDone /\ UKnown /\ UDescriptor.Type \in SupportedTypes) =>
        IF UArg[1] = ExpectedArgType(UDescriptor)
        THEN /\ err = Nil
             /\ Len(calls) = 1
             /\ calls[1][1] = ExpectedEntryPoint(UDescriptor)
             /\ calls[1][2] = UDescriptor.Location
             /\ ByAddress(UDescriptor) => calls[1][3] = UDescriptor.Count
             /\ calls[1][Len(calls[1])] = UArg[2]
        ELSE err = "is not of type " \o ExpectedArgType(UDescriptor)

\* an INT uniform of length 1 was set by value at the second location
DispatchTableWitness ==
    /\ SetUniformDone
    /\ UKnown
    /\ UDescriptor.Type = "INT"
    /\ UDescriptor.Count = 1
    /\ UDescriptor.Location = 4
    /\ calls = <<<<"Uniform1i", 4, 9>>>>
    /\ err = Nil

\* ---------------------------------------------------------- draw claims
DrawDone == op = "Draw"

PipelineCalls ==
    {"BindFramebuffer", "UseProgram", "Enable", "Disable", "BlendFunc",
     "CullFace", "DepthMask", "DepthFunc", "Viewport"}

DrawCalls ==
    {"DrawArrays", "DrawArraysInstanced", "DrawElements",
     "DrawElementsInstanced"}

\* the positions of the log that hold a call of one of the names
Positions(names) == {i \in DOMAIN calls : calls[i][1] \in names}

\* the positions at which a drawable is unbound
UnbindPositions == {i \in DOMAIN calls : calls[i] = <<"BindVertexArray", 0>>}

\* the log after the pipeline calls falls into one block for every
\* unbind, each ending with it
BlockEnd(k) ==
    IF k = 0 THEN Cardinality(Positions(PipelineCalls))
    ELSE CHOOSE i \in UnbindPositions :
             Cardinality({j \in UnbindPositions : j <= i}) = k

Block(k) == SubSeq(calls, BlockEnd(k - 1) + 1, BlockEnd(k))

\* what is left after the last unbind
Remainder ==
    SubSeq(calls, BlockEnd(Cardinality(UnbindPositions)) + 1, Len(calls))

IsPreparation(call) ==
    call[1] \in {"ActiveTexture", "BindTexture"} \cup UniformCalls

\* the block b is an execution of the command c: its texture binds and
\* uniform sets, then the bind of its drawable, a draw, the unbind
ExecutionOf(b, c) ==
    LET n == Len(b)
    IN  /\ n >= 3
        /\ c.renderable # Nil
        /\ b[n - 2] = <<"BindVertexArray", renderables[c.renderable].id>>
        /\ b[n - 1][1] \in DrawCalls
        /\ b[n] = <<"BindVertexArray", 0>>
        /\ \A i \in 1..(n - 3) : IsPreparation(b[i])
        /\ \A u \in DOMAIN c.textures :
             \E i \in 1..(n - 4) :
                /\ b[i] = <<"ActiveTexture", u>>
                /\ b[i + 1] = <<"BindTexture", "TEXTURE_2D",
                                textures[c.textures[u]].id>>
        /\ Cardinality({i \in 1..(n - 3) : b[i][1] = "ActiveTexture"})
             = Cardinality(DOMAIN c.textures)
        /\ Cardinality({i \in 1..(n - 3) : b[i][1] \in UniformCalls})
             <= Cardinality(DOMAIN c.uniforms)

\* C6: Draw runs setup exactly once and before any command: every
\* pipeline call precedes every other call of the log, so none falls
\* between commands; the rest of the log is one block per executed
\* command, in list order; in a block the command's texture binds and
\* uniform sets come first, then the bind of its drawable, the draw and
\* the unbind. A Draw that faults leaves a prefix of this.
DrawOrdering ==
    DrawDone =>
        LET p == Cardinality(Positions(PipelineCalls))
            executed == Cardinality(UnbindPositions)
        IN  /\ setups = 1
            /\ Positions(PipelineCalls) = 1..p
            /\ executed <= Len(drawn)
            /\ ~fault => executed = Len(drawn)
            /\ \A k \in 1..executed :
                 ExecutionOf(Block(k), cmds[drawn[k]])
            /\ ~fault => Remainder = <<>>
            /\ \A i \in DOMAIN Remainder : IsPreparation(Remainder[i])

\* a Draw of two different commands completed: it switched the program,
\* bound a texture and set two uniforms for the first, drew the first
\* as arrays and the second as instanced elements
DrawOrderingWitness ==
    /\ DrawDone
    /\ ~fault
    /\ Len(drawn) = 2
    /\ calls[1][1] = "UseProgram"
    /\ Len(Block(1)) = 7
    /\ Block(1)[6][1] = "DrawArrays"
    /\ Block(2)[Len(Block(2)) - 1][1] = "DrawElementsInstanced"

\* ----------------------------------------------------- alignment claims
\* the block descriptor the last accessor was called on
UBlock == blockDescriptors[uarg[1]][uarg[2]]

\* what must be added to size to reach the next multiple of a
Padding(size, a) == (a - (size % a)) % a

\* the smallest multiple of a that is >= size (it is an int32 when
\* size <= MaxInt32 - Padding(size, a))
CeilToMultiple(size, a) == size + Padding(size, a)

CeilFits == UBlock.Size <= MaxInt32 - Padding(UBlock.Size, UBlock.Alignment)

\* C11: AlignedSize returns the smallest multiple of Alignment that is
\* >= Size; when Size is a multiple of Alignment it returns Size.
AlignmentLaw ==
    (op = "AlignedSize" /\ CeilFits) =>
        ret = <<CeilToMultiple(UBlock.Size, UBlock.Alignment)>>

\* it does so whenever Size is not a multiple of Alignment
AlignmentLawUnaligned ==
    (/\ op = "AlignedSize"
     /\ CeilFits
     /\ UBlock.Size % UBlock.Alignment # 0) =>
        ret = <<CeilToMultiple(UBlock.Size, UBlock.Alignment)>>

\* ------------------------------------------------------- command claims
\* C12: a Command executed twice by one Draw, unchanged in between,
\* issues the same texture-bind, uniform-set and draw calls in the same
\* order both times, whatever the order in which its maps are ranged.
ReplayDeterminism ==
    (DrawDone /\ ~fault) =>
        \A i, j \in DOMAIN drawn :
            drawn[i] = drawn[j] => Block(i) = Block(j)

\* the same for a Command that holds at most one uniform
ReplayDeterminismOneUniform ==
    (DrawDone /\ ~fault) =>
        \A i, j \in DOMAIN drawn :
            (/\ drawn[i] = drawn[j]
             /\ Cardinality(DOMAIN cmds[drawn[i]].uniforms) <= 1)
                => Block(i) = Block(j)

\* the positions of the drawn list whose command has a drawable
WithDrawable == {i \in DOMAIN drawn : cmds[drawn[i]].renderable # Nil}

\* C13: a Draw whose list holds commands without a drawable completes
\* without fault; it issues no draw call for them and still executes
\* the commands that follow (one bind-draw-unbind for every command
\* that has a drawable).
NoDrawableDrawsNothing ==
    (DrawDone /\ tech.shader # Nil) =>
        /\ ~fault
        /\ Cardinality(Positions(DrawCalls)) = Cardinality(WithDrawable)
        /\ Cardinality(UnbindPositions) = Cardinality(WithDrawable)

\* a Draw whose commands all have a drawable completes and draws each
EveryDrawableDrawn ==
    (DrawDone /\ tech.shader # Nil /\ WithDrawable = DOMAIN drawn) =>
        /\ ~fault
        /\ Cardinality(Positions(DrawCalls)) = Len(drawn)

\* the uniform `name` of a command cannot be bound under the shader s:
\* s holds no descriptor for it, or the value has not the dynamic type
\* the dispatch asks for
UniformFails(s, name, arg) ==
    \/ name \notin DOMAIN descriptors[s]
    \/ /\ descriptors[s][name].Type \in SupportedTypes
       /\ arg[1] # ExpectedArgType(descriptors[s][name])

\* the positions of the drawn list with a uniform that cannot be bound
\* under the technique's shader
FailingPositions ==
    {i \in DOMAIN drawn :
        \E name \in DOMAIN cmds[drawn[i]].uniforms :
            UniformFails(tech.shader, name, cmds[drawn[i]].uniforms[name])}

\* C14: when a uniform of an executed command fails to bind (unknown
\* name or mismatched value), Draw reports a failure to its caller.
UniformFailureReported ==
    (DrawDone /\ ~fault /\ FailingPositions # {}) => err # Nil

\* a failing uniform issues no device call and does not stop the Draw:
\* every command of the list is still drawn
UniformFailureSkipped ==
    (DrawDone /\ ~fault /\ FailingPositions # {}) =>
        /\ Cardinality(Positions(DrawCalls)) = Len(drawn)
        /\ \A i \in FailingPositions :
             Cardinality({k \in DOMAIN Block(i) :
                             Block(i)[k][1] \in UniformCalls})
               < Cardinality(DOMAIN cmds[drawn[i]].uniforms)

\* what Uniform(c, name, value) must leave: the value under the name,
\* every other entry, field and command as it was
UniformOverwrites(c, name, value) ==
    /\ DOMAIN cmds'[c].uniforms = DOMAIN cmds[c].uniforms \cup {name}
    /\ cmds'[c].uniforms[name] = value
    /\ \A k \in DOMAIN cmds[c].uniforms \ {name} :
         cmds'[c].uniforms[k] = cmds[c].uniforms[k]
    /\ cmds'[c].textures = cmds[c].textures
    /\ cmds'[c].renderable = cmds[c].renderable

TextureOverwrites(c, location, texture) ==
    /\ DOMAIN cmds'[c].textures = DOMAIN cmds[c].textures \cup {location}
    /\ cmds'[c].textures[location] = texture
    /\ \A k \in DOMAIN cmds[c].textures \ {location} :
         cmds'[c].textures[k] = cmds[c].textures[k]
    /\ cmds'[c].uniforms = cmds[c].uniforms
    /\ cmds'[c].renderable = cmds[c].renderable

RenderableOverwrites(c, renderable) ==
    /\ cmds'[c].renderable = renderable
    /\ cmds'[c].uniforms = cmds[c].uniforms
    /\ cmds'[c].textures = cmds[c].textures

\* a builder call on c touches no other command and not the device
PureBuilder(c) ==
    /\ \A other \in DOMAIN cmds \ {c} : cmds'[other] = cmds[other]
    /\ calls' = <<>>
    /\ dev' = dev
    /\ ~fault'

\* the block of an executed command holds, for every unit of the
\* command, one activation followed by the bind of the texture held for
\* it, and for every uniform name one set call at the name's location
\* with the value held for it
ExecutesEachKeyOnce ==
    (DrawDone /\ ~fault) =>
        \A i \in DOMAIN drawn :
            LET c == cmds[drawn[i]]
                b == Block(i)
            IN  /\ \A u \in DOMAIN c.textures :
                     /\ Cardinality({k \in DOMAIN b :
                                       b[k] = <<"ActiveTexture", u>>}) = 1
                     /\ \E k \in DOMAIN b :
                          /\ b[k] = <<"ActiveTexture", u>>
                          /\ b[k + 1] = <<"BindTexture", "TEXTURE_2D",
                                          textures[c.textures[u]].id>>
                /\ Cardinality({k \in DOMAIN b : b[k][1] = "ActiveTexture"})
                     = Cardinality(DOMAIN c.textures)
                /\ \A name \in DOMAIN c.uniforms :
                     Cardinality({k \in DOMAIN b :
                                    b[k] = <<"Uniform1i", LocationOf(name),
                                             c.uniforms[name][2]>>}) = 1
                /\ Cardinality({k \in DOMAIN b : b[k][1] \in UniformCalls})
                     = Cardinality(DOMAIN c.uniforms)

\* C15: Uniform, Texture and Renderable overwrite by name, by unit and
\* on set (the last call for a key wins, nothing else changes) and
\* issue no device call; executing the Command binds one texture per
\* distinct unit and sets one uniform per distinct name, with the
\* values the Command holds.
CommandOverwrite ==
    [][/\ \A c \in CmdIds, name \in UniformNames, value \in BuilderArgs :
            Uniform(c, name, value) =>
                (UniformOverwrites(c, name, value) /\ PureBuilder(c))
       /\ \A c \in CmdIds, location \in BuilderUnits,
             texture \in BuilderTextureIds :
            Texture(c, location, texture) =>
                (TextureOverwrites(c, location, texture) /\ PureBuilder(c))
       /\ \A c \in CmdIds, renderable \in RenderableIds :
            Renderable(c, renderable) =>
                (RenderableOverwrites(c, renderable) /\ PureBuilder(c))
       /\ ExecutesEachKeyOnce']_vars

\* a Command that holds the second value for u, the first for v, the
\* second texture on the first unit, the first on the second unit and
\* the second drawable was executed
CommandOverwriteWitness ==
    /\ DrawDone
    /\ ~fault
    /\ drawn = <<"K1">>
    /\ cmds["K1"].uniforms = Put(Put(EmptyMap, "u", <<"int32", 9>>),
                                 "v", <<"int32", 7>>)
    /\ cmds["K1"].textures = Put(Put(EmptyMap, "TEXTURE0", "X2"),
                                 "TEXTURE1", "X1")
    /\ cmds["K1"].renderable = "R2"
    /\ Len(calls) >= 9

\* ------------------------------------------------------ lifecycle claims
\* the last operation was a LinkProgram that succeeded, on the shader
\* LShader with the device reporting LReport
LinkDone == op = "LinkProgram" /\ err = Nil
LShader == uarg[1]
LReport == uarg[2]

\* after a successful link both maps hold exactly what that link
\* reported: the uniforms outside a block, and the blocks
LinkReplacesDescriptors ==
    LinkDone =>
        /\ DOMAIN descriptors[LShader] =
             {LReport.uniforms[i].name :
                i \in {j \in DOMAIN LReport.uniforms :
                         LReport.uniforms[j].block = -1}}
        /\ \A i \in DOMAIN LReport.uniforms :
             LReport.uniforms[i].block = -1 =>
                /\ descriptors[LShader][LReport.uniforms[i].name].Type
                     = LReport.uniforms[i].typ
                /\ descriptors[LShader][LReport.uniforms[i].name].Location
                     = LReport.uniforms[i].location
        /\ DOMAIN blockDescriptors[LShader] =
             {LReport.blocks[k].name : k \in DOMAIN LReport.blocks}

\* a shader without a program (never attached to, or destroyed) exposes
\* no descriptors
NoProgramNoDescriptors ==
    \A s \in Shaders :
        programs[s].id = "0" =>
            (descriptors[s] = EmptyMap /\ blockDescriptors[s] = EmptyMap)

\* C16: the descriptors of a shader never outlive the link that made
\* them: after a successful LinkProgram both maps hold exactly what
\* that link reported, and after Destroy the shader exposes no
\* descriptors, so that SetUniform fails and issues no device call.
DescriptorLifecycle ==
    /\ LinkReplacesDescriptors
    /\ NoProgramNoDescriptors
    /\ (SetUniformDone /\ programs[UShader].id = "0") =>
          (err # Nil /\ calls = <<>>)

\* ---------------------------------------------------- framebuffer claims
\* the attachment map of f before and after a step
Attached(f) == framebuffers[f].textures
AttachedNext(f) == framebuffers'[f].textures

\* C17: AttachTexture on an attachment point that holds a texture
\* returns an error, issues no device call and leaves the map as it
\* is; on a free point the texture is recorded if and only if no error
\* is returned; an entry of the map is never replaced or removed; and
\* Texture(attachment) returns the recorded texture.
DuplicateAttachment ==
    [][/\ \A f \in FrameBuffers, a \in Attachments,
             x \in BuilderTextureIds, complete \in BOOLEAN :
            AttachTexture(f, a, x, complete) =>
                IF a \in DOMAIN Attached(f)
                THEN /\ err' # Nil
                     /\ calls' = <<>>
                     /\ framebuffers' = framebuffers
                ELSE /\ (err' = Nil) <=> (a \in DOMAIN AttachedNext(f))
                     /\ err' = Nil => AttachedNext(f)[a] = x
                     /\ DOMAIN AttachedNext(f) \subseteq
                          DOMAIN Attached(f) \cup {a}
       /\ \A f \in FrameBuffers : \A a \in DOMAIN Attached(f) :
            /\ a \in DOMAIN AttachedNext(f)
            /\ AttachedNext(f)[a] = Attached(f)[a]
       /\ \A f \in FrameBuffers, a \in Attachments :
            FrameBufferTexture(f, a) =>
                ret' = IF a \in DOMAIN Attached(f)
                       THEN <<Attached(f)[a], TRUE>> ELSE <<Nil, FALSE>>]_vars

\* a second texture was refused on a point that holds the first one
DuplicateAttachmentWitness ==
    /\ op = "AttachTexture"
    /\ uarg = <<"F1", "COLOR_ATTACHMENT0", "X2">>
    /\ err = "texture already attached"
    /\ calls = <<>>
    /\ Attached("F1")["COLOR_ATTACHMENT0"] = "X1"

FrameBufferPostconditionTruthful ==
    [][(/\ SetupStep
        /\ ~fault'
        /\ dev.framebuffer = IF prevFrameBuffer = Nil THEN "0"
                             ELSE prevFrameBuffer) =>
          dev'.framebuffer = IF tech.framebuffer = Nil THEN "0"
                             ELSE tech.framebuffer]_vars

\* ------------------------------------------------------- viewport claims
\* the set-viewport call for the rectangle r
ViewportCall(r) == <<"Viewport", r[1], r[2], r[3], r[4]>>

\* C19: whenever the rectangle of the technique's Viewport differs from
\* the rectangle the device last received, setup issues a set-viewport
\* call with the new rectangle, also when the caller changed a field of
\* a Viewport object an earlier setup used.
ViewportByValue ==
    [][(/\ SetupStep
        /\ ~fault'
        /\ tech.viewport # Nil
        /\ dev.viewport # viewports[tech.viewport]) =>
          Count(calls', ViewportCall(viewports[tech.viewport])) = 1]_vars

\* the same while the Viewport object the snapshot points at still
\* holds the rectangle the device received; and then no call is issued
\* for a rectangle the device already has, whichever object holds it
ViewportByValueUnmutated ==
    [][(/\ SetupStep
        /\ ~fault'
        /\ tech.viewport # Nil
        /\ prevViewport # Nil => dev.viewport = viewports[prevViewport]) =>
          IF dev.viewport # viewports[tech.viewport]
          THEN Count(calls', ViewportCall(viewports[tech.viewport])) = 1
          ELSE CountOp(calls', "Viewport") = 0]_vars

\* --------------------------------------------------------- binder claims
\* the program active on the device when the call at position i of the
\* log is issued, `before` being the program active before the log
ProgramAt(log, i, before) ==
    LET uses == {j \in 1..(i - 1) : log[j][1] = "UseProgram"}
    IN  IF uses = {} THEN before
        ELSE log[CHOOSE j \in uses : \A k \in uses : k <= j][2]

\* C20: at every uniform-set call a Draw issues, the program active on
\* the device is the shader of the technique that draws.
BinderPrecondition ==
    [][op' = "Draw" =>
          \A i \in DOMAIN calls' :
              calls'[i][1] \in UniformCalls =>
                  ProgramAt(calls', i, dev.program) = tech.shader]_vars

\* a Draw switched the program to S1 with everything else already
\* applied, and set a uniform under it
BinderPreconditionWitness ==
    /\ DrawDone
    /\ ~fault
    /\ tech.shader = "S1"
    /\ Len(calls) >= 5
    /\ calls[1] = <<"UseProgram", "S1">>
    /\ calls[2][1] = "Uniform1i"

\* ---------------------------------------------------------- unset fields
\* the four fixed-function fields of the technique t are all set
FixedSet(t) ==
    /\ t.blendFunc # None /\ t.cullFace # None
    /\ t.depthMask # None /\ t.depthFunc # None

\* C21: a setup of a technique whose blend func, cull face, depth mask,
\* depth func or viewport is unset issues no gl call for that attribute
\* and leaves the snapshot's value of it as it was; NewTechnique returns a
\* technique with the four fixed-function fields set, and no setter
\* unsets one.
UnsetNoOpinion ==
    [][/\ SetupStep =>
            /\ tech.blendFunc = None =>
                  /\ CountOp(calls', "BlendFunc") = 0
                  /\ prevBlendFunc' = prevBlendFunc
            /\ tech.cullFace = None =>
                  /\ CountOp(calls', "CullFace") = 0
                  /\ prevCullFace' = prevCullFace
            /\ tech.depthMask = None =>
                  /\ CountOp(calls', "DepthMask") = 0
                  /\ prevDepthMask' = prevDepthMask
            /\ tech.depthFunc = None =>
                  /\ CountOp(calls', "DepthFunc") = 0
                  /\ prevDepthFunc' = prevDepthFunc
            /\ tech.viewport = Nil =>
                  /\ CountOp(calls', "Viewport") = 0
                  /\ prevViewport' = prevViewport
       /\ NewTechnique => FixedSet(tech')
       /\ (FixedSet(tech) /\ ~ZeroTechnique) => FixedSet(tech')]_vars

\* a setup of the zero technique has left a snapshot that holds all five
\* attributes as it was, without a gl call
UnsetNoOpinionWitness ==
    /\ op = "setup" /\ ~fault
    /\ tech = ZeroTechniqueValue
    /\ calls = <<>>
    /\ prevBlendFunc = <<"SRC_ALPHA", "ONE_MINUS_SRC_ALPHA">>
    /\ prevCullFace = <<"FRONT">>
    /\ prevDepthMask = <<FALSE>>
    /\ prevDepthFunc = <<"LEQUAL">>
    /\ prevViewport = "V1"

\* ------------------------------------------------------ reflected names
\* the uniforms outside a block that the last link reported
Standalone == {i \in DOMAIN LReport.uniforms : LReport.uniforms[i].block = -1}

\* C22: after a successful link, every uniform outside a block has a
\* descriptor under its name, the Name of every descriptor is the key it
\* is stored under, and that Name followed by the terminator is what the
\* device wrote for the uniform.
StandaloneNaming ==
    LinkDone =>
        /\ \A key \in DOMAIN descriptors[LShader] :
              descriptors[LShader][key].Name = key
        /\ \A i \in Standalone :
              \E key \in DOMAIN descriptors[LShader] :
                 NameBytes(descriptors[LShader][key].Name)
                   = NameBytes(LReport.uniforms[i].name)

\* what does hold of the names: the key is what the device wrote without
\* the terminator, and the Name is the key without its last character
StandaloneNamingKey ==
    LinkDone =>
        /\ DOMAIN descriptors[LShader] =
              {LReport.uniforms[i].name : i \in Standalone}
        /\ \A key \in DOMAIN descriptors[LShader] :
              /\ Len(descriptors[LShader][key].Name) = Len(key) - 1
              /\ descriptors[LShader][key].Name
                   = SubSeq(key, 1, Len(key) - 1)

\* ------------------------------------------------- reflected partition
\* the block descriptors of the shader of the last link
LBlocks == blockDescriptors[LShader]

\* C23: after a successful link, every uniform reported outside a block
\* has a descriptor with its reported type, count and location and is in
\* no block's offset map; every uniform reported in block b is in the
\* offset map of the block with index b, with its reported offset, in no
\* other block's offset map and not among the descriptors.
ReflectionPartition ==
    LinkDone =>
        \A i \in DOMAIN LReport.uniforms :
            LET u == LReport.uniforms[i]
            IN  IF u.block = -1
                THEN /\ u.name \in DOMAIN descriptors[LShader]
                     /\ descriptors[LShader][u.name].Type = u.typ
                     /\ descriptors[LShader][u.name].Count = u.count
                     /\ descriptors[LShader][u.name].Location = u.location
                     /\ \A b \in DOMAIN LBlocks :
                           u.name \notin DOMAIN LBlocks[b].Offsets
                ELSE /\ u.name \notin DOMAIN descriptors[LShader]
                     /\ \E b \in DOMAIN LBlocks : LBlocks[b].Index = u.block
                     /\ \A b \in DOMAIN LBlocks :
                           IF LBlocks[b].Index = u.block
                           THEN /\ u.name \in DOMAIN LBlocks[b].Offsets
                                /\ LBlocks[b].Offsets[u.name] = u.offset
                           ELSE u.name \notin DOMAIN LBlocks[b].Offsets

\* a link reported two blocks, one uniform in the second block and one
\* outside any block
ReflectionPartitionWitness ==
    /\ LinkDone
    /\ Len(LReport.blocks) = 2
    /\ Len(LReport.uniforms) = 2
    /\ LReport.uniforms[1].block = 1
    /\ LReport.uniforms[2].block = -1
    /\ DOMAIN LBlocks = {"B", "C"}
    /\ DOMAIN LBlocks["C"].Offsets = {LReport.uniforms[1].name}
    /\ LBlocks["B"].Offsets = EmptyMap
    /\ DOMAIN descriptors[LShader] = {LReport.uniforms[2].name}

\* ------------------------------------------------- order inside a setup
\* the category of a gl call of setup, numbered in the claimed order
Rank(call) ==
    CASE call[1] = "BindFramebuffer" -> 1
      [] call[1] = "UseProgram" -> 2
      [] call[1] = "Enable" -> 3
      [] call[1] = "Disable" -> 4
      [] call[1] = "BlendFunc" -> 5
      [] call[1] = "CullFace" -> 6
      [] call[1] = "DepthMask" -> 7
      [] call[1] = "DepthFunc" -> 8
      [] call[1] = "Viewport" -> 9

\* the calls of the log are in the claimed order of categories
InOrder(log) ==
    \A i, j \in DOMAIN log : i < j => Rank(log[i]) <= Rank(log[j])

\* no attribute gets more than one call
AtMostOnce(log) ==
    /\ \A name \in {"BindFramebuffer", "UseProgram", "BlendFunc", "CullFace",
                     "DepthMask", "DepthFunc", "Viewport"} :
          CountOp(log, name) <= 1
    /\ \A c \in Caps : /\ Count(log, <<"Enable", c>>) <= 1
                       /\ Count(log, <<"Disable", c>>) <= 1

\* the framebuffer a technique asks for, as the device names it
Target(t) == IF t.framebuffer = Nil THEN "0" ELSE t.framebuffer

\* every category in which the technique t asks for what the device
\* already holds is without a call in the log, whatever the others do
SkippedWhenUnchanged(t, log) ==
    /\ Target(t) = dev.framebuffer => CountOp(log, "BindFramebuffer") = 0
    /\ t.shader = dev.program => CountOp(log, "UseProgram") = 0
    /\ Requested(t) \subseteq dev.enabled => CountOp(log, "Enable") = 0
    /\ dev.enabled \subseteq Requested(t) => CountOp(log, "Disable") = 0
    /\ t.blendFunc = dev.blendFunc => CountOp(log, "BlendFunc") = 0
    /\ t.cullFace = dev.cullFace => CountOp(log, "CullFace") = 0
    /\ t.depthMask = dev.depthMask => CountOp(log, "DepthMask") = 0
    /\ t.depthFunc = dev.depthFunc => CountOp(log, "DepthFunc") = 0
    /\ (t.viewport # Nil /\ viewports[t.viewport] = dev.viewport) =>
          CountOp(log, "Viewport") = 0

\* the same, measured against the snapshot instead of the device
SkippedWhenRecorded(t, log) ==
    /\ t.framebuffer = prevFrameBuffer => CountOp(log, "BindFramebuffer") = 0
    /\ t.shader = prevShader => CountOp(log, "UseProgram") = 0
    /\ Requested(t) \subseteq prevEnables => CountOp(log, "Enable") = 0
    /\ prevEnables \subseteq Requested(t) => CountOp(log, "Disable") = 0
    /\ t.blendFunc = prevBlendFunc => CountOp(log, "BlendFunc") = 0
    /\ t.cullFace = prevCullFace => CountOp(log, "CullFace") = 0
    /\ t.depthMask = prevDepthMask => CountOp(log, "DepthMask") = 0
    /\ t.depthFunc = prevDepthFunc => CountOp(log, "DepthFunc") = 0
    /\ (t.viewport # Nil /\ prevViewport # Nil
          /\ viewports[t.viewport] = viewports[prevViewport]) =>
          CountOp(log, "Viewport") = 0

ApplyOrderingRecorded ==
    [][SetupStep => /\ InOrder(calls')
                    /\ AtMostOnce(calls')
                    /\ SkippedWhenRecorded(tech, calls')]_vars

\* --------------------------------------------- the implemented formula
\* what AlignedSize says of the block it was asked about: a multiple of
\* Alignment, above Size by at most Alignment, and by the whole
\* Alignment when Size is a multiple itself
OverPadded ==
    /\ ret[1] % UBlock.Alignment = 0
    /\ ret[1] > UBlock.Size
    /\ ret[1] - UBlock.Size <= UBlock.Alignment
    /\ UBlock.Size % UBlock.Alignment = 0 =>
          ret[1] - UBlock.Size = UBlock.Alignment

\* Size + Alignment - (Size % Alignment) is an int32
FormulaFits ==
    UBlock.Alignment - (UBlock.Size % UBlock.Alignment)
      <= MaxInt32 - UBlock.Size

\* C25 as stated: for every Size >= 0 and Alignment >= 1 of type int32,
\* AlignedSize returns a multiple of Alignment that is greater than Size
\* and at most Size + Alignment, and Size + Alignment when Size is a
\* multiple of Alignment.
ImplementedFormula == op = "AlignedSize" => OverPadded

\* C25, for the sizes the formula does not overflow on: whenever
\* Size + Alignment - (Size % Alignment) is at most MaxInt32, AlignedSize
\* returns a multiple of Alignment that is greater than Size and at most
\* Size + Alignment, and Size + Alignment when Size is a multiple.
ImplementedFormulaFits == (op = "AlignedSize" /\ FormulaFits) => OverPadded

\* AlignedSize has answered Size + Alignment for a Size that is a
\* multiple of the Alignment
ImplementedFormulaWitness ==
    /\ op = "AlignedSize"
    /\ UBlock.Size = 8 /\ UBlock.Alignment = 4
    /\ ret = <<12>>

\* ------------------------------------------------- shader object cleanup
\* C26: after LinkProgram returns, with or without an error, no shader
\* object that was attached through AttachShader is left undeleted, and
\* the Shader records no shader object.
ShaderCleanup ==
    op = "LinkProgram" =>
        /\ programs[uarg[1]].shaders = <<>>
        /\ dev.shaders = {}

\* what LinkProgram does clean up: the shader objects the Shader had
\* recorded are deleted, and the record is emptied
ShaderCleanupRecorded ==
    [][op' = "LinkProgram" =>
          /\ programs'[uarg'[1]].shaders = <<>>
          /\ \A i \in DOMAIN programs[uarg'[1]].shaders :
                /\ Count(calls', <<"DeleteShader",
                                   programs[uarg'[1]].shaders[i]>>) = 1
                /\ \A p \in dev'.shaders :
                      p[2] # programs[uarg'[1]].shaders[i]]_vars

\* ------------------------------------------------------ apply completes
\* C27: a setup of a technique built by NewTechnique and the setters runs
\* to its end, whatever the snapshot holds; a technique that was given
\* no shader does not activate one.
ApplyCompletes == op = "setup" => ~fault

\* a setup runs to its end whenever the technique has a shader, or has
\* none and the snapshot records none either
ApplyCompletesWithShader ==
    [][(SetupStep /\ (tech.shader # Nil \/ prevShader = Nil)) =>
          ~fault']_vars

\* ------------------------------------------- binding across AttachTexture
\* the snapshot records no framebuffer, or the one the device has bound
RecordedIsBound(recorded, d) ==
    recorded # Nil => d.framebuffer = recorded

AttachUnbinds ==
    [][op' = "AttachTexture" =>
          /\ prevFrameBuffer' = prevFrameBuffer
          /\ IF err' = "texture already attached"
             THEN dev'.framebuffer = dev.framebuffer
             ELSE dev'.framebuffer = "0"]_vars

\* ---------------------------------------------------------- draw mode
\* the Renderable of the last Renderable.Draw
DrawnRenderable == uarg[1]

\* the draw call of the log is an instanced one, an indexed one
InstancedDraw ==
    calls[1][1] \in {"DrawArraysInstanced", "DrawElementsInstanced"}

IndexedDraw == calls[1][1] \in {"DrawElements", "DrawElementsInstanced"}

\* C29: a Draw of a Renderable that has been given draw parameters is
\* an instanced draw exactly when the most recent SetDraw* call on it was
\* an instanced one with primcount > 0, and an indexed draw exactly when
\* it has an index buffer.
DrawModeFollowsLastSet ==
    (op = "RenderableDraw" /\ DrawnRenderable \in DOMAIN lastSet) =>
        /\ Len(calls) = 1
        /\ InstancedDraw <=> lastSet[DrawnRenderable][2] > 0
        /\ IndexedDraw <=> renderables[DrawnRenderable].indexbuffer # Nil

\* the same for a Draw whose most recent SetDraw* call was an instanced
\* one; and every Draw is indexed exactly when there is an index buffer
DrawModeFollowsInstancedSet ==
    op = "RenderableDraw" =>
        /\ Len(calls) = 1
        /\ IndexedDraw <=> renderables[DrawnRenderable].indexbuffer # Nil
        /\ InstancedDraw <=> renderables[DrawnRenderable].primcount > 0
        /\ (/\ DrawnRenderable \in DOMAIN lastSet
            /\ lastSet[DrawnRenderable][1] \in
                  {"SetDrawArraysInstanced", "SetDrawElementsInstanced"}) =>
              (InstancedDraw <=> lastSet[DrawnRenderable][2] > 0)

====
